---- MODULE Spec2Model ----
(***************************************************************************)
(* Model of the chart annotation engine of btcusd-tradingview-chart.       *)
(*                                                                         *)
(* The primitive-based DrawingManager (js/dataProcessor.js, lines 245-900) *)
(* and the Toolbar widget that drives it through the event bus             *)
(* (js/ui/Toolbar.js).  One action per handler; a handler that throws      *)
(* keeps the assignments it made before the throw.                         *)
(***************************************************************************)
EXTENDS Integers, Sequences, FiniteSets, TLC

\* ------------------------------------------------------------------ bounds
\* pointer positions 1..MaxPos delivered in pointer events
MaxPos == 2
\* number of drawing ids generateDrawingId hands out in one run
MaxIds == 1
\* hit-test tolerances 0..MaxTol, in pixels
MaxTol == 1
\* the chart is scrolled by 0..MaxPan pixels
MaxPan == 1
\* and zoomed by a factor 1..MaxZoom
MaxZoom == 2
\* requestAnimationFrame calls in one run
MaxRequests == 6

\* ------------------------------------------------------------ value spaces
NoTool == "null"
\* tool objects, identified by BaseTool.name
Tools == {"TrendLine", "HorizontalLine", "FibRetracement"}
\* Toolbar.tools[].id
ToolIds == {"trendline", "horizontal", "fibonacci"}
NoToolId == "none"
\* strings a 'drawing-tool-selected' event may carry
ToolNames == ToolIds \cup {"TrendLine"}
Pos == 1..MaxPos
\* the host call that raises during a commit, if any
HostFaults == {"none", "attachPrimitive", "applyOptions"}
\* an absent value (null / undefined) is the empty sequence, a present one <<v>>
None == << >>
Some(v) == <<v>>

\* ----------------------------------------------------- coordinate mapping
\* host time scale, coordinateToTime (prices and times are integers; prices
\* are in thousandths so that rounding to 2 decimals is visible)
screenToTime(x) == 1000 + 60 * x
\* host price scale, coordinateToPrice
screenToPrice(y) == 50000 - 1234 * y
\* DrawingManager.screenToChart with rect.left = rect.top = 0
screenToChart(p) ==
    [time |-> screenToTime(p), price |-> screenToPrice(p), screenX |-> p, screenY |-> p]

\* the coordinateMapper handed to fromJSON: host timeToCoordinate and
\* priceToCoordinate, to the nearest pixel
chartToScreen(time, price) ==
    <<(time - 1000) \div 60, (50000 - price + 617) \div 1234>>

\* Math.round(price * 100) / 100 on a price given in thousandths
SnapPrice(p) == ((p + 5) \div 10) * 10

\* --------------------------------------------------------------- the tools
\* FibRetracementTool.options.levels, the ratios in thousandths
FibLevels == <<0, 236, 382, 500, 618, 786, 1000>>

\* calculateFibLevels that ignores the end anchor
calculateFibLevels_Stale(sp, ep) ==
    IF sp = None \/ ep = None THEN << >>
    ELSE [k \in 1..Len(FibLevels) |->
            [level |-> FibLevels[k], price1000 |-> sp[1].price * 1000]]

\* FibRetracementTool.calculateFibLevels(startPoint, endPoint): one row per
\* configured ratio; price1000 is the row's price times 1000, so that
\* startPoint.price + priceDiff * level is exact
calculateFibLevels(sp, ep) ==
    IF sp = None \/ ep = None THEN << >>
    ELSE [k \in 1..Len(FibLevels) |->
            [level |-> FibLevels[k],
             price1000 |-> sp[1].price * 1000 + (ep[1].price - sp[1].price) * FibLevels[k]]]

\* the value of an arithmetic expression over an undefined operand
NaN == -1

\* DrawingManager.options, the options the manager hands to startDrawing
ManagerOptions == [snapToPrice |-> TRUE]
\* the options a caller of a tool's createDrawing may pass
ToolOptions == [snapToPrice : BOOLEAN]

\* a drawing object.  Absent fields are None; snapToPrice is
\* options.snapToPrice; lineLengthSq is lineLength squared, and direction is
\* the pair <<dy, dx>> that angle (atan2) and slope (dy / dx || 0) are
\* computed from, << >> when dy or dx is NaN
\* TrendLineTool / FibRetracementTool / HorizontalLineTool .createDrawing
createDrawing(tool, c, options) ==
    LET blank == [type |-> tool, startPoint |-> None, endPoint |-> None,
                  snapToPrice |-> options.snapToPrice,
                  price |-> None, derivedBy |-> NoTool, levels |-> None,
                  lineLengthSq |-> None, direction |-> None, priceRange |-> None,
                  priceDifference |-> None, timeDifference |-> None]
    IN CASE tool = "TrendLine" ->
              [blank EXCEPT
                 !.startPoint = Some([time |-> c.time, price |-> c.price, screen |-> Some(<<c.screenX, c.screenY>>)]),
                 !.endPoint = Some([time |-> c.time, price |-> c.price, screen |-> Some(<<c.screenX, c.screenY>>)])]
         [] tool = "FibRetracement" ->
              LET pt == Some([time |-> c.time, price |-> c.price, screen |-> None])
              IN [blank EXCEPT !.startPoint = pt, !.endPoint = pt,
                               !.levels = Some(calculateFibLevels(pt, pt))]
         [] OTHER ->
              [blank EXCEPT !.type = "HorizontalLine",
                            !.price = Some(IF options.snapToPrice THEN SnapPrice(c.price)
                                           ELSE c.price)]

\* HorizontalLineTool.updateDrawingData(drawing, coords) with coords.price
\* given as an option (None when the mapper did not resolve it)
horizontalUpdate(d, price) ==
    IF d.snapToPrice /\ price # None
    THEN [d EXCEPT !.price = Some(SnapPrice(price[1]))]
    ELSE d

\* <Tool>.updateDrawingData(drawing, coords), applied by whichever tool is
\* active to whatever drawing is in progress
updateDrawingData(tool, d, c) ==
    CASE tool = "TrendLine" ->
           IF d.endPoint = None THEN d
           ELSE [d EXCEPT !.endPoint =
                     Some([time |-> c.time,
                           price |-> IF d.snapToPrice THEN SnapPrice(c.price) ELSE c.price,
                           screen |-> Some(<<c.screenX, c.screenY>>)])]
      [] tool = "FibRetracement" ->
           IF d.endPoint = None THEN d
           ELSE LET ep == Some([time |-> c.time,
                                price |-> IF d.snapToPrice THEN SnapPrice(c.price) ELSE c.price,
                                screen |-> None])
                IN [d EXCEPT !.endPoint = ep,
                             !.levels = Some(calculateFibLevels(d.startPoint, ep))]
      [] OTHER -> horizontalUpdate(d, Some(c.price))

\* finalizeDrawingData dereferences drawing.endPoint / drawing.startPoint
\* after the update; on a drawing without them that is a TypeError
finalizeThrows(tool, d) ==
    /\ tool \in {"TrendLine", "FibRetracement"}
    /\ (d.endPoint = None \/ d.startPoint = None)

\* |x|, Math.abs
Abs(x) == IF x < 0 THEN -x ELSE x

\* finalizeDrawingData that marks a drawing it is applied to again
finalizeDrawingData_Marking(tool, d, c) ==
    [updateDrawingData(tool, d, c) EXCEPT
        !.derivedBy = IF d.derivedBy = NoTool THEN tool ELSE "again"]

\* <Tool>.finalizeDrawingData: last update plus the tool's derived fields
finalizeDrawingData(tool, d, c) ==
    LET u == updateDrawingData(tool, d, c)
        sp == u.startPoint[1]
        ep == u.endPoint[1]
        onScreen == sp.screen # None /\ ep.screen # None
        dx == ep.screen[1][1] - sp.screen[1][1]
        dy == ep.screen[1][2] - sp.screen[1][2]
    IN CASE tool = "TrendLine" ->
              [u EXCEPT !.derivedBy = tool,
                        !.lineLengthSq = Some(IF onScreen THEN dx * dx + dy * dy ELSE NaN),
                        !.direction = Some(IF onScreen THEN <<dy, dx>> ELSE << >>),
                        !.priceDifference = Some(ep.price - sp.price),
                        !.timeDifference = Some(ep.time - sp.time)]
         [] tool = "FibRetracement" ->
              [u EXCEPT !.derivedBy = tool,
                        !.priceRange = Some(Abs(ep.price - sp.price)),
                        !.priceDifference = Some(ep.price - sp.price),
                        !.timeDifference = Some(ep.time - sp.time)]
         [] OTHER -> u

\* <Tool>.toJSON(drawing): kind, domain anchors and options (the other
\* options and the timestamp are passed through untouched and left out)
toJSON(tool, d) ==
    IF tool = "HorizontalLine"
    THEN [type |-> d.type, price |-> d.price, snapToPrice |-> d.snapToPrice]
    ELSE [type |-> d.type, snapToPrice |-> d.snapToPrice,
          startPoint |-> [time |-> d.startPoint[1].time, price |-> d.startPoint[1].price],
          endPoint |-> [time |-> d.endPoint[1].time, price |-> d.endPoint[1].price]]

\* <Tool>.fromJSON(data, coordinateMapper): the anchors with their screen
\* positions mapped back; the Fibonacci tool recalculates its level table
fromJSON(tool, j) ==
    LET blank == [type |-> j.type, startPoint |-> None, endPoint |-> None,
                  snapToPrice |-> j.snapToPrice,
                  price |-> None, derivedBy |-> NoTool, levels |-> None,
                  lineLengthSq |-> None, direction |-> None, priceRange |-> None,
                  priceDifference |-> None, timeDifference |-> None]
    IN IF tool = "HorizontalLine"
       THEN [blank EXCEPT !.price = j.price]
       ELSE LET sp == Some([time |-> j.startPoint.time, price |-> j.startPoint.price,
                            screen |-> Some(chartToScreen(j.startPoint.time, j.startPoint.price))])
                ep == Some([time |-> j.endPoint.time, price |-> j.endPoint.price,
                            screen |-> Some(chartToScreen(j.endPoint.time, j.endPoint.price))])
                line == [blank EXCEPT !.startPoint = sp, !.endPoint = ep]
            IN IF tool = "FibRetracement"
               THEN [line EXCEPT !.levels = Some(calculateFibLevels(sp, ep))]
               ELSE line

\* TrendLineTool.pointToLineDistance(px, py, x1, y1, x2, y2), squared, as the
\* fraction num / den (den > 0): the projection parameter is dot / lenSq
pointToLineDistanceSq(px, py, x1, y1, x2, y2) ==
    LET A == px - x1
        B == py - y1
        C == x2 - x1
        D == y2 - y1
        dot == A * C + B * D
        lenSq == C * C + D * D
    IN IF lenSq = 0 \/ dot < 0
       THEN [num |-> A * A + B * B, den |-> 1]
       ELSE IF dot > lenSq
       THEN [num |-> (px - x2) * (px - x2) + (py - y2) * (py - y2), den |-> 1]
       ELSE [num |-> (A * lenSq - dot * C) * (A * lenSq - dot * C)
                       + (B * lenSq - dot * D) * (B * lenSq - dot * D),
             den |-> lenSq * lenSq]

\* TrendLineTool.isPointInside(drawing, point, tolerance); distances are
\* compared through their squares
isPointInside(d, pt, tolerance) ==
    IF d.startPoint = None \/ d.endPoint = None THEN FALSE
    ELSE LET x1 == d.startPoint[1].screen[1][1]
             y1 == d.startPoint[1].screen[1][2]
             x2 == d.endPoint[1].screen[1][1]
             y2 == d.endPoint[1].screen[1][2]
             dist == pointToLineDistanceSq(pt[1], pt[2], x1, y1, x2, y2)
             startSq == (pt[1] - x1) * (pt[1] - x1) + (pt[2] - y1) * (pt[2] - y1)
             endSq == (pt[1] - x2) * (pt[1] - x2) + (pt[2] - y2) * (pt[2] - y2)
         IN \/ dist.num <= tolerance * tolerance * dist.den
            \/ startSq <= (tolerance + 5) * (tolerance + 5)
            \/ endSq <= (tolerance + 5) * (tolerance + 5)

\* ---------------------------------------------------------------- painting
\* the state of the host's scales: scroll offset, zoom factor, and whether
\* the time scale / the price scale resolve a value at all (timeToCoordinate
\* and priceToCoordinate return null when they do not)
Viewports == [pan : 0..MaxPan, zoom : 1..MaxZoom, timeOk : BOOLEAN, priceOk : BOOLEAN]
\* the scales as chartToScreen and screenToChart see them
HomeViewport == [pan |-> 0, zoom |-> 1, timeOk |-> TRUE, priceOk |-> TRUE]

\* chart.timeScale().timeToCoordinate(time)
timeToCoordinate(v, time) ==
    IF v.timeOk THEN Some(chartToScreen(time, 0)[1] * v.zoom - v.pan) ELSE None
\* series.priceToCoordinate(price)
priceToCoordinate(v, price) ==
    IF v.priceOk THEN Some(chartToScreen(0, price)[2] * v.zoom - v.pan) ELSE None
\* series.priceToCoordinate on a price given times 1000 (a level's price)
priceToCoordinate1000(v, price1000) ==
    IF v.priceOk
    THEN Some(((50000 * 1000 - price1000 + 617000) \div 1234000) * v.zoom - v.pan)
    ELSE None

\* what a paint call put on the canvas: the segment, the label and the
\* level lines, each absent when it was not drawn
NoFrame == [line |-> None, label |-> None, levels |-> << >>]
\* ctx.canvas.width
CanvasWidth == 800

\* a JavaScript number used as a condition: the price difference is set and
\* not 0
Truthy(n) == n # None /\ n[1] # 0

\* the text of drawLabel: the price difference and the percentage
\* (priceDiff / startPoint.price * 100).toFixed(2), which is "Infinity" or
\* "-Infinity" when startPoint.price is 0; hundredths is the percentage
\* times 100 when it is finite
labelText(d) ==
    [priceDifference |-> d.priceDifference[1],
     finite |-> d.startPoint[1].price # 0,
     hundredths |-> IF d.startPoint[1].price = 0 THEN 0
                    ELSE (d.priceDifference[1] * 10000) \div d.startPoint[1].price]

\* TrendLinePrimitive.drawTrendLine(target) with drawingData d, and the
\* drawLabel it calls
drawTrendLine(d, v) ==
    IF d.startPoint = None \/ d.endPoint = None THEN NoFrame
    ELSE LET startX == timeToCoordinate(v, d.startPoint[1].time)
             startY == priceToCoordinate(v, d.startPoint[1].price)
             endX == timeToCoordinate(v, d.endPoint[1].time)
             endY == priceToCoordinate(v, d.endPoint[1].price)
             dx == endX[1] - startX[1]
             dy == endY[1] - startY[1]
         IN IF startX = None \/ startY = None \/ endX = None \/ endY = None
            THEN NoFrame
            ELSE [NoFrame EXCEPT
                    !.line = Some(<<startX[1], startY[1], endX[1], endY[1]>>),
                    !.label = IF dx * dx + dy * dy > 50 * 50 /\ Truthy(d.priceDifference)
                              THEN Some(labelText(d)) ELSE None]

\* TrendLineTool.draw(ctx, drawing, options) and the drawLabel it calls
\* (extendLeft and extendRight are off)
trendLineDraw(d) ==
    IF d.startPoint = None \/ d.endPoint = None THEN NoFrame
    ELSE [NoFrame EXCEPT
            !.line = IF d.startPoint[1].screen = None \/ d.endPoint[1].screen = None
                     THEN None
                     ELSE Some(d.startPoint[1].screen[1] \o d.endPoint[1].screen[1]),
            !.label = IF /\ d.lineLengthSq # None
                         /\ d.lineLengthSq[1] # NaN
                         /\ d.lineLengthSq[1] > 50 * 50
                         /\ Truthy(d.priceDifference)
                      THEN Some(labelText(d)) ELSE None]

\* HorizontalLineTool.draw(ctx, drawing, options, coordinateMapper) with a
\* mapper over the host scales
horizontalDraw(d, v) ==
    IF d.price = None THEN NoFrame
    ELSE LET screenY == priceToCoordinate(v, d.price[1])
         IN IF screenY = None THEN NoFrame
            ELSE [NoFrame EXCEPT !.line = Some(<<0, screenY[1], CanvasWidth, screenY[1]>>)]

\* FibRetracementTool.getScreenPoint(point, coordinateMapper): the mapped
\* position, else the position stored with the point, else null
getScreenPoint(pt, v) ==
    LET x == timeToCoordinate(v, pt.time)
        y == priceToCoordinate(v, pt.price)
    IN IF x # None /\ y # None THEN Some(<<x[1], y[1]>>)
       ELSE pt.screen

\* FibRetracementTool.draw(ctx, drawing, options, coordinateMapper); a
\* level's screenY is getPriceScreenY, times 1000: the mapped price, else the
\* fallback interpolated between the two anchors
fibDraw(d, v) ==
    IF d.startPoint = None \/ d.endPoint = None \/ d.levels = None THEN NoFrame
    ELSE LET startScreen == getScreenPoint(d.startPoint[1], v)
             endScreen == getScreenPoint(d.endPoint[1], v)
             table == d.levels[1]
             screenY1000(k) ==
                 LET y == priceToCoordinate1000(v, table[k].price1000)
                 IN IF y # None THEN 1000 * y[1]
                    ELSE 1000 * startScreen[1][2]
                           + (endScreen[1][2] - startScreen[1][2]) * table[k].level
         IN IF startScreen = None \/ endScreen = None \/ Len(table) = 0 THEN NoFrame
            ELSE [NoFrame EXCEPT
                    !.line = Some(startScreen[1] \o endScreen[1]),
                    !.levels = [k \in 1..Len(table) |->
                                  [level |-> table[k].level, screenY1000 |-> screenY1000(k)]]]

\* DrawingManager.createTrendLinePrimitive: null unless both points exist
createTrendLinePrimitive(dopt) ==
    /\ dopt # None
    /\ dopt[1].startPoint # None
    /\ dopt[1].endPoint # None

\* ---------------------------------------------------------- tool registry
\* DrawingManager.initializeTools: this.tools
ToolRegistry == [n \in {"trendline"} |-> "TrendLine"]
\* String.prototype.toLowerCase on the names used
toLowerCase(n) == IF n = "TrendLine" THEN "trendline" ELSE n
\* DrawingManager.getToolInstance
getToolInstance(n) ==
    IF n \in DOMAIN ToolRegistry THEN ToolRegistry[n]
    ELSE IF toLowerCase(n) \in DOMAIN ToolRegistry THEN ToolRegistry[toLowerCase(n)]
    ELSE IF n \in {"trendline", "TrendLine"} THEN "TrendLine"
    ELSE NoTool

\* the class body of the primitive-based DrawingManager declares no
\* scheduleRedraw method, so this.scheduleRedraw() raises a TypeError
scheduleRedrawDefined == FALSE

\* the primitive-based DrawingManager creates no overlay canvas, so
\* this.drawingManager.canvas.style raises a TypeError
managerHasCanvas == FALSE

\* ------------------------------------------------------------------- state
VARIABLES
    currentTool,                \* DrawingManager.currentTool
    isActive,                   \* DrawingManager.isActive
    toolIsActive,               \* BaseTool.isActive of each tool object
    isDrawing,                  \* DrawingManager.isDrawing
    currentDrawing,             \* DrawingManager.currentDrawing (None or <<d>>)
    navigationLocked,           \* DrawingManager.navigationLocked
    originalNavigationOptions,  \* cached defaults present (non-null)
    listening,                  \* pointer listeners attached to the container
    drawings,                   \* DrawingManager.drawings, in insertion order
    attached,                   \* ids whose primitive is attached to the series
    nextId,                     \* ids handed out so far
    toolbarTool,                \* Toolbar.currentTool
    lastOp,                     \* the handler that ran last and its argument
    signals,                    \* events it emitted on the bus, in order
    thrown,                     \* where it raised, "" if it returned normally
    releases,                   \* restore applyOptions calls since the pointer-down of
                                \* the gesture in progress (0 when none is in progress)
    openStart,                  \* a 'drawing-started' went out on the bus and no
                                \* 'drawing-completed' / 'drawing-cancelled' since
    subject,                    \* the drawing object a tool's method is called on
    result,                     \* the value the tool's method returned
    viewport,                   \* the state of the host's time and price scales
    animationFrameId,           \* DrawingManager.animationFrameId of the canvas manager
    frameRequests,              \* ids of the callbacks the browser runs at the next frame
    requested,                  \* ids requestAnimationFrame has handed out
    coalesced,                  \* scheduleRedraw calls since the last redraw
    redrawsInFrame,             \* redraw() calls the last frame made
    destroyed,                  \* the canvas manager's destroy() has run
    events,                     \* EventBus.events: event name -> array of listeners
    invoked,                    \* the listeners the last emit called, in call order
    returned,                   \* what the last call on the bus returned
    subscribed,                 \* subscriptions made on the bus so far
    fired,                      \* the once() subscriptions whose callback has run to its end
    csvText,                    \* the text handed to DataProcessor.parseCSV
    parsed                      \* what parseCSV returned, or that it raised

mgrVars == <<currentTool, isActive, toolIsActive, isDrawing, currentDrawing,
             navigationLocked, originalNavigationOptions,
             listening, drawings, attached, nextId>>
histVars == <<releases, openStart>>
frameVars == <<animationFrameId, frameRequests, requested, coalesced,
               redrawsInFrame, destroyed>>
busVars == <<events, invoked, returned, subscribed, fired>>
csvVars == <<csvText, parsed>>
libVars == <<busVars, csvVars>>
toolVars == <<subject, result, viewport, frameVars, libVars>>
vars == <<currentTool, isActive, toolIsActive, isDrawing, currentDrawing,
          navigationLocked, originalNavigationOptions,
          listening, drawings, attached, nextId, toolbarTool, lastOp,
          signals, thrown, releases, openStart, subject, result, viewport,
          animationFrameId, frameRequests, requested, coalesced,
          redrawsInFrame, destroyed, events, invoked, returned, subscribed,
          fired, csvText, parsed>>

\* state after new DrawingManager(...) and new Toolbar(...)
Init ==
    /\ currentTool = NoTool
    /\ isActive = FALSE
    /\ toolIsActive = [t \in Tools |-> FALSE]
    /\ isDrawing = FALSE
    /\ currentDrawing = None
    /\ navigationLocked = FALSE
    /\ originalNavigationOptions = TRUE
    /\ listening = FALSE
    /\ drawings = << >>
    /\ attached = {}
    /\ nextId = 0
    /\ toolbarTool = NoToolId
    /\ lastOp = [op |-> "constructor", arg |-> ""]
    /\ signals = << >>
    /\ thrown = ""
    /\ releases = 0
    /\ openStart = FALSE
    /\ subject = None
    /\ result = None
    /\ viewport = HomeViewport
    /\ animationFrameId = None
    /\ frameRequests = {}
    /\ requested = 0
    /\ coalesced = 0
    /\ redrawsInFrame = 0
    /\ destroyed = FALSE
    /\ events = << >>
    /\ invoked = << >>
    /\ returned = None
    /\ subscribed = 0
    /\ fired = {}
    /\ csvText = << >>
    /\ parsed = None

\* ------------------------------------------------------- navigation lock
\* disableNavigation makes its applyOptions call (chart.chart is non-null for
\* the manager's whole life: chart.js builds the manager after the chart)
disableApplies == ~navigationLocked
\* restoreNavigation gets past its guard
restoreRuns == navigationLocked
\* restoreNavigation makes its applyOptions call
restoreApplies == navigationLocked /\ originalNavigationOptions

\* the gesture bookkeeping of a handler that leaves isDrawing at `drawingAfter`
\* and made `nRestore` restore calls
Track(drawingAfter, nRestore) ==
    /\ releases' = IF isDrawing /\ drawingAfter THEN releases + nRestore ELSE 0
    /\ openStart' = /\ openStart
                    /\ \A i \in 1..Len(signals') :
                          signals'[i] \notin {"drawing-completed", "drawing-cancelled"}

\* ---------------------------------------------------------- setActiveTool
\* DrawingManager.setActiveTool(tool); `pre` are the events the caller had
\* already emitted in the same handler
setActiveTool(tool, pre) ==
    /\ toolIsActive' =
         LET off == IF currentTool # NoTool
                    THEN [toolIsActive EXCEPT ![currentTool] = FALSE]
                    ELSE toolIsActive
         IN IF tool # NoTool THEN [off EXCEPT ![tool] = TRUE] ELSE off
    /\ navigationLocked' = IF currentTool # NoTool THEN FALSE ELSE navigationLocked
    /\ currentTool' = tool
    /\ isActive' = (tool # NoTool)
    /\ listening' = (tool # NoTool)
    /\ signals' = pre \o (IF tool # NoTool THEN <<"drawing-tool-activated">>
                                           ELSE <<"drawing-tool-deactivated">>)
    /\ thrown' = ""
    /\ Track(isDrawing, IF currentTool # NoTool /\ restoreApplies THEN 1 ELSE 0)
    /\ UNCHANGED <<isDrawing, currentDrawing, originalNavigationOptions,
                   drawings, attached, nextId>>

\* chart.setActiveDrawingTool(tool) / a 'drawing-tool-selected' event that
\* carries a tool object
SetActiveTool(tool) ==
    /\ setActiveTool(tool, << >>)
    /\ lastOp' = [op |-> "setActiveTool", arg |-> tool]
    /\ UNCHANGED toolVars
    /\ UNCHANGED toolbarTool

\* the manager's listener for 'drawing-tool-selected' with a string
OnDrawingToolSelected(name) ==
    /\ setActiveTool(getToolInstance(name), << >>)
    /\ lastOp' = [op |-> "drawing-tool-selected", arg |-> name]
    /\ UNCHANGED toolVars
    /\ UNCHANGED toolbarTool

\* the manager's listener for 'drawing-tool-deselected'
OnDrawingToolDeselected ==
    /\ setActiveTool(NoTool, << >>)
    /\ lastOp' = [op |-> "drawing-tool-deselected", arg |-> ""]
    /\ UNCHANGED toolVars
    /\ UNCHANGED toolbarTool

\* BTCUSDChart.enableDrawings(enabled)
EnableDrawings(enabled) ==
    /\ lastOp' = [op |-> "enableDrawings", arg |-> IF enabled THEN "true" ELSE "false"]
    /\ UNCHANGED toolVars
    /\ UNCHANGED toolbarTool
    /\ IF ~managerHasCanvas
       THEN /\ signals' = << >>
            /\ thrown' = "canvas"
            /\ UNCHANGED <<mgrVars, histVars>>
       ELSE IF enabled
       THEN /\ isActive' = TRUE
            /\ signals' = << >>
            /\ thrown' = ""
            /\ UNCHANGED <<currentTool, toolIsActive, isDrawing, currentDrawing,
                           navigationLocked, originalNavigationOptions,
                           listening, drawings, attached, nextId, histVars>>
       ELSE setActiveTool(NoTool, << >>)

\* the manager's listener for 'chart-visible-range-changed'; the bus catches
\* what a listener raises
OnVisibleRangeChanged ==
    /\ lastOp' = [op |-> "chart-visible-range-changed", arg |-> ""]
    /\ UNCHANGED toolVars
    /\ signals' = << >>
    /\ thrown' = IF scheduleRedrawDefined THEN "" ELSE "scheduleRedraw"
    /\ UNCHANGED <<mgrVars, histVars, toolbarTool>>

\* ---------------------------------------------------------------- Toolbar
\* Toolbar.selectTool without its toggle branch
isReselect_NoToggle(toolId) == FALSE

\* Toolbar.selectTool: the clicked tool is the one the toolbar has selected
isReselect(toolId) == toolbarTool = toolId

\* Toolbar.selectTool(toolId)
ToolbarSelectTool(toolId) ==
    /\ lastOp' = [op |-> "Toolbar.selectTool", arg |-> toolId]
    /\ UNCHANGED toolVars
    /\ IF isReselect(toolId)
       THEN /\ setActiveTool(NoTool, <<"drawing-tool-deselected">>)
            /\ toolbarTool' = NoToolId
       ELSE /\ setActiveTool(getToolInstance(toolId), <<"drawing-tool-selected">>)
            /\ toolbarTool' = toolId

\* --------------------------------------------------------- pointer events
\* handleMouseDown without its early return
mouseDownBlocked_NoGuard == FALSE

\* the early return of handleMouseDown
mouseDownBlocked == ~isActive \/ currentTool = NoTool
\* handleMouseUp without its early return
mouseUpBlocked_NoGuard == FALSE

\* the early return of handleMouseUp
mouseUpBlocked == ~isDrawing \/ currentDrawing = None
\* the condition under which handleMouseLeave cancels
mouseLeaveCancels == isDrawing /\ currentDrawing # None

\* a handler that returns at its guard
Returns ==
    /\ signals' = << >>
    /\ thrown' = ""
    /\ UNCHANGED <<mgrVars, histVars, toolbarTool>>

\* a handler that raises at `site` before it assigned anything
Raises(site) ==
    /\ signals' = << >>
    /\ thrown' = site
    /\ UNCHANGED <<mgrVars, histVars, toolbarTool>>

\* neither DrawingManager class declares a clearAll method, so
\* this.drawingManager.clearAll() raises a TypeError
managerHasClearAll == FALSE

\* Toolbar.clearAllDrawings(); `accepted` is the answer to its confirm()
ToolbarClearAllDrawings(accepted) ==
    /\ lastOp' = [op |-> "Toolbar.clearAllDrawings",
                  arg |-> IF accepted THEN "accepted" ELSE "dismissed"]
    /\ UNCHANGED toolVars
    /\ IF ~accepted THEN Returns
       ELSE IF ~managerHasClearAll THEN Raises("clearAll")
       ELSE /\ signals' = <<"toolbar:cleared">>
            /\ thrown' = ""
            /\ UNCHANGED <<mgrVars, histVars, toolbarTool>>

\* DrawingManager.handleMouseDown(event)
HandleMouseDown(p) ==
    /\ lastOp' = [op |-> "handleMouseDown", arg |-> ""]
    /\ UNCHANGED toolVars
    /\ IF mouseDownBlocked THEN Returns
       ELSE IF currentTool = NoTool
       THEN \* isDrawing is assigned before this.currentTool is dereferenced
            /\ isDrawing' = TRUE
            /\ signals' = << >>
            /\ thrown' = "currentTool"
            /\ UNCHANGED <<currentTool, isActive, toolIsActive, currentDrawing,
                           navigationLocked, originalNavigationOptions,
                           listening, drawings, attached,
                           nextId, histVars, toolbarTool>>
       ELSE /\ isDrawing' = TRUE
            /\ currentDrawing' = Some(createDrawing(currentTool, screenToChart(p), ManagerOptions))
            /\ navigationLocked' = TRUE
            /\ signals' = <<"drawing-started">>
            /\ thrown' = ""
            /\ releases' = 0
            /\ openStart' = TRUE
            /\ UNCHANGED <<currentTool, isActive, toolIsActive,
                           originalNavigationOptions, listening, drawings,
                           attached, nextId, toolbarTool>>

\* DrawingManager.handleMouseMove(event)
HandleMouseMove(p) ==
    /\ lastOp' = [op |-> "handleMouseMove", arg |-> ""]
    /\ UNCHANGED toolVars
    /\ IF ~isActive \/ currentTool = NoTool THEN Returns
       ELSE /\ currentDrawing' =
                 IF isDrawing /\ currentDrawing # None
                 THEN Some(updateDrawingData(currentTool, currentDrawing[1], screenToChart(p)))
                 ELSE currentDrawing
            /\ signals' = <<"drawing-mouse-move">>
            /\ thrown' = ""
            /\ UNCHANGED <<currentTool, isActive, toolIsActive, isDrawing,
                           navigationLocked, originalNavigationOptions,
                           listening, drawings, attached,
                           nextId, histVars, toolbarTool>>

\* the tail of handleMouseUp without its this.currentDrawing = null
FinishGesture_KeepsDrawing ==
    /\ isDrawing' = FALSE
    /\ currentDrawing' = currentDrawing
    /\ navigationLocked' = FALSE
    /\ signals' = <<"drawing-completed">>
    /\ thrown' = ""
    /\ Track(FALSE, IF restoreApplies THEN 1 ELSE 0)

\* the tail of handleMouseUp: lines 687-697
FinishGesture ==
    /\ isDrawing' = FALSE
    /\ currentDrawing' = None
    /\ navigationLocked' = FALSE
    /\ signals' = <<"drawing-completed">>
    /\ thrown' = ""
    /\ Track(FALSE, IF restoreApplies THEN 1 ELSE 0)

\* DrawingManager.handleMouseUp(event); `fault` is the host call that raises
HandleMouseUp(p, fault) ==
    /\ lastOp' = [op |-> "handleMouseUp", arg |-> fault]
    /\ UNCHANGED toolVars
    /\ IF mouseUpBlocked THEN fault = "none" /\ Returns
       ELSE IF currentTool = NoTool THEN fault = "none" /\ Raises("currentTool")
       ELSE IF currentDrawing # None /\ finalizeThrows(currentTool, currentDrawing[1])
       THEN fault = "none" /\ Raises("finalizeDrawingData")
       ELSE LET fin == IF currentDrawing = None THEN None
                       ELSE Some(finalizeDrawingData(currentTool, currentDrawing[1], screenToChart(p)))
                primitive == currentTool = "TrendLine" /\ createTrendLinePrimitive(fin)
                id == nextId + 1
            IN IF ~primitive
               THEN /\ fault = "none"
                    /\ FinishGesture
                    /\ UNCHANGED <<currentTool, isActive, toolIsActive,
                                   originalNavigationOptions, listening,
                                   drawings, attached, nextId, toolbarTool>>
               ELSE /\ nextId < MaxIds
                    /\ drawings' = Append(drawings, [id |-> id, tool |-> currentTool,
                                                     data |-> fin[1], primitive |-> TRUE])
                    /\ nextId' = id
                    /\ attached' = IF fault = "attachPrimitive" THEN attached
                                   ELSE attached \cup {id}
                    /\ IF fault = "none"
                       THEN FinishGesture
                       ELSE \* the host call raised: lines 687-697 never run
                            /\ currentDrawing' = fin
                            /\ signals' = << >>
                            /\ thrown' = fault
                            /\ UNCHANGED <<isDrawing, navigationLocked, histVars>>
                    /\ UNCHANGED <<currentTool, isActive, toolIsActive,
                                   originalNavigationOptions, listening, toolbarTool>>

\* DrawingManager.handleMouseLeave(event)
HandleMouseLeave ==
    /\ lastOp' = [op |-> "handleMouseLeave", arg |-> ""]
    /\ UNCHANGED toolVars
    /\ IF ~mouseLeaveCancels THEN Returns
       ELSE /\ isDrawing' = FALSE
            /\ currentDrawing' = None
            /\ IF scheduleRedrawDefined
               THEN /\ navigationLocked' = FALSE
                    /\ signals' = <<"drawing-cancelled">>
                    /\ thrown' = ""
                    /\ Track(FALSE, IF restoreApplies THEN 1 ELSE 0)
               ELSE \* this.scheduleRedraw is not a function: lines 730-735 never run
                    /\ signals' = << >>
                    /\ thrown' = "scheduleRedraw"
                    /\ Track(FALSE, 0)
                    /\ UNCHANGED navigationLocked
            /\ UNCHANGED <<currentTool, isActive, toolIsActive,
                           originalNavigationOptions, listening, drawings,
                           attached, nextId, toolbarTool>>

\* ------------------------------------------------------------- collection
RECURSIVE withoutId(_, _)
\* Map.prototype.delete on the insertion-ordered collection
withoutId(s, id) ==
    IF s = << >> THEN << >>
    ELSE IF Head(s).id = id THEN withoutId(Tail(s), id)
    ELSE <<Head(s)>> \o withoutId(Tail(s), id)

\* Map.prototype.has answering yes for every key
has_Always(coll, id) == TRUE

\* Map.prototype.has
has(coll, id) == \E i \in 1..Len(coll) : coll[i].id = id

\* this.drawings.has(drawingId)
hasDrawing(id) == has(drawings, id)

\* the string form of a drawing id, as recorded with the handler that got it
idArg(id) == ToString(id)

\* the forEach of clearAllDrawings run after this.drawings.clear()
clearDetaches_AfterClear == {}

\* the primitives clearAllDrawings detaches: its forEach runs over the
\* collection as it is before this.drawings.clear()
clearDetaches == {drawings[i].id : i \in {j \in 1..Len(drawings) : drawings[j].primitive}}

\* DrawingManager.clearAllDrawings()
ClearAllDrawings ==
    /\ lastOp' = [op |-> "clearAllDrawings", arg |-> ""]
    /\ UNCHANGED toolVars
    /\ attached' = attached \ clearDetaches
    /\ drawings' = << >>
    /\ isDrawing' = FALSE
    /\ currentDrawing' = None
    /\ signals' = <<"all-drawings-cleared">>
    /\ thrown' = ""
    /\ Track(FALSE, 0)
    /\ UNCHANGED <<currentTool, isActive, toolIsActive, navigationLocked,
                   originalNavigationOptions, listening,
                   nextId, toolbarTool>>

\* removeDrawing without its detachPrimitive call
RemoveDrawing_NoDetach(id) ==
    /\ lastOp' = [op |-> "removeDrawing", arg |-> idArg(id)]
    /\ UNCHANGED toolVars
    /\ IF ~hasDrawing(id) THEN Returns
       ELSE /\ attached' = attached
            /\ drawings' = withoutId(drawings, id)
            /\ signals' = <<"drawing-removed">>
            /\ thrown' = ""
            /\ UNCHANGED <<currentTool, isActive, toolIsActive, isDrawing,
                           currentDrawing, navigationLocked,
                           originalNavigationOptions,
                           listening, nextId, histVars, toolbarTool>>

\* DrawingManager.removeDrawing(drawingId)
RemoveDrawing(id) ==
    /\ lastOp' = [op |-> "removeDrawing", arg |-> idArg(id)]
    /\ UNCHANGED toolVars
    /\ IF ~hasDrawing(id) THEN Returns
       ELSE /\ attached' = attached \ {id}
            /\ drawings' = withoutId(drawings, id)
            /\ signals' = <<"drawing-removed">>
            /\ thrown' = ""
            /\ UNCHANGED <<currentTool, isActive, toolIsActive, isDrawing,
                           currentDrawing, navigationLocked,
                           originalNavigationOptions,
                           listening, nextId, histVars, toolbarTool>>

\* DrawingManager.removeDrawing(drawingId) of the canvas variant
\* (js/drawings/DrawingManager.js): the collection it leaves, the events it
\* emits and whether it schedules a redraw
canvasRemoveDrawing(coll, id) ==
    IF has(coll, id)
    THEN [drawings |-> withoutId(coll, id), signals |-> <<"drawing-removed">>, redraw |-> TRUE]
    ELSE [drawings |-> coll, signals |-> << >>, redraw |-> FALSE]

\* ------------------------------------------------------- the tools' methods
\* a tool's method called on its own drawing leaves the manager alone
ToolCall ==
    /\ signals' = << >>
    /\ thrown' = ""
    /\ UNCHANGED <<mgrVars, histVars, toolbarTool, libVars, viewport, frameVars>>

\* <Tool>.createDrawing(coords, options)
ToolCreateDrawing(tool, p, options) ==
    /\ lastOp' = [op |-> "createDrawing", arg |-> tool]
    /\ subject' = Some(createDrawing(tool, screenToChart(p), options))
    /\ result' = None
    /\ ToolCall

\* <Tool>.updateDrawingData(drawing, coords), by the tool of the drawing's kind
ToolUpdateDrawingData(p) ==
    /\ subject # None
    /\ lastOp' = [op |-> "updateDrawingData", arg |-> p]
    /\ subject' = Some(updateDrawingData(subject[1].type, subject[1], screenToChart(p)))
    /\ result' = None
    /\ ToolCall

\* HorizontalLineTool.updateDrawingData(drawing, coords) with coords whose
\* price the mapper did not resolve (null)
ToolUpdateUnresolved ==
    /\ subject # None
    /\ subject[1].type = "HorizontalLine"
    /\ lastOp' = [op |-> "updateDrawingData", arg |-> 0]
    /\ subject' = Some(horizontalUpdate(subject[1], None))
    /\ result' = None
    /\ ToolCall

\* <Tool>.finalizeDrawingData(drawing, coords)
ToolFinalizeDrawingData(p) ==
    /\ subject # None
    /\ lastOp' = [op |-> "finalizeDrawingData", arg |-> p]
    /\ subject' = Some(finalizeDrawingData(subject[1].type, subject[1], screenToChart(p)))
    /\ result' = None
    /\ ToolCall

\* <Tool>.fromJSON(<Tool>.toJSON(drawing), coordinateMapper)
ToolRoundTrip ==
    /\ subject # None
    /\ lastOp' = [op |-> "fromJSON", arg |-> subject[1].type]
    /\ result' = Some(fromJSON(subject[1].type, toJSON(subject[1].type, subject[1])))
    /\ UNCHANGED subject
    /\ ToolCall

\* screen coordinates of hit-test queries
QueryCoords == 0..(MaxPos + 6)

\* TrendLineTool.isPointInside(drawing, point, tolerance)
ToolIsPointInside(pt, tolerance) ==
    /\ subject # None
    /\ subject[1].type = "TrendLine"
    /\ lastOp' = [op |-> "isPointInside", arg |-> <<pt, tolerance>>]
    /\ result' = Some(isPointInside(subject[1], pt, tolerance))
    /\ UNCHANGED subject
    /\ ToolCall

\* -------------------------------------------------- gestures and painting
\* domain points the pointer is put on
RenderTimes == {1000, 4600}
RenderPrices == {0, 25320, 50000}
RenderPoints == [time : RenderTimes, price : RenderPrices]

\* DrawingManager.screenToChart for a pointer at the screen position of the
\* domain point a while the host's scales are at v
coordsAt(v, a) ==
    [time |-> a.time, price |-> a.price,
     screenX |-> timeToCoordinate(v, a.time)[1],
     screenY |-> priceToCoordinate(v, a.price)[1]]

\* the drawing a gesture from a to b leaves: startDrawing at pointer-down,
\* finishDrawing at pointer-up
gestureDrawing(v, tool, a, b) ==
    finalizeDrawingData(tool, createDrawing(tool, coordsAt(v, a), ManagerOptions),
                        coordsAt(v, b))

\* a whole gesture with tool `tool`, pointer-down on a and pointer-up on b
RenderGesture(tool, a, b) ==
    /\ viewport.timeOk /\ viewport.priceOk
    /\ lastOp' = [op |-> "gesture", arg |-> tool]
    /\ subject' = Some(gestureDrawing(viewport, tool, a, b))
    /\ result' = None
    /\ ToolCall

\* the drawing is stored with toJSON and loaded back with fromJSON, before
\* the chart is scrolled or zoomed
RenderLoad ==
    /\ subject # None
    /\ viewport = HomeViewport
    /\ lastOp' = [op |-> "load", arg |-> subject[1].type]
    /\ subject' = Some(fromJSON(subject[1].type, toJSON(subject[1].type, subject[1])))
    /\ result' = None
    /\ ToolCall

\* the user scrolls or zooms the chart, or its data comes and goes
SetViewport(v) ==
    /\ v # viewport
    /\ lastOp' = [op |-> "viewport", arg |-> ""]
    /\ viewport' = v
    /\ result' = None
    /\ signals' = << >>
    /\ thrown' = ""
    /\ UNCHANGED <<mgrVars, histVars, toolbarTool, libVars, subject, frameVars>>

\* one repaint of the drawing: what the host-attached primitive draws (there
\* is a primitive class for trend lines only) and what the tool's draw
\* method draws on the overlay canvas
Paint ==
    /\ subject # None
    /\ lastOp' = [op |-> "paint", arg |-> subject[1].type]
    /\ result' =
          Some([primitive |-> IF subject[1].type = "TrendLine"
                              THEN drawTrendLine(subject[1], viewport) ELSE NoFrame,
                canvas |-> CASE subject[1].type = "TrendLine" -> trendLineDraw(subject[1])
                             [] subject[1].type = "FibRetracement" -> fibDraw(subject[1], viewport)
                             [] OTHER -> horizontalDraw(subject[1], viewport)])
    /\ UNCHANGED subject
    /\ ToolCall

\* ------------------------------------------- the canvas manager's repaints
\* scheduleRedraw that does not cancel the request it replaces
cancelAnimationFrame_Noop(requests, id) == requests

\* cancelAnimationFrame(id): the browser drops the callback, if it still has it
cancelAnimationFrame(requests, id) == requests \ {id}

\* DrawingManager.scheduleRedraw() of the canvas manager: the pending
\* request, if any, is cancelled and a new one is made
scheduleRedraw ==
    /\ requested < MaxRequests
    /\ requested' = requested + 1
    /\ frameRequests' =
          (IF animationFrameId # None
           THEN cancelAnimationFrame(frameRequests, animationFrameId[1])
           ELSE frameRequests) \cup {requested + 1}
    /\ animationFrameId' = Some(requested + 1)
    /\ coalesced' = coalesced + 1
    /\ UNCHANGED <<redrawsInFrame, destroyed>>

\* the canvas manager's listener for 'chart-visible-range-changed'
CanvasVisibleRangeChanged ==
    /\ lastOp' = [op |-> "chart-visible-range-changed", arg |-> 0]
    /\ scheduleRedraw
    /\ signals' = << >>
    /\ thrown' = ""
    /\ UNCHANGED <<mgrVars, histVars, toolbarTool, libVars, subject, result, viewport>>

\* DrawingManager.clearAllDrawings() of the canvas manager
CanvasClearAllDrawings ==
    /\ lastOp' = [op |-> "clearAllDrawings", arg |-> 0]
    /\ drawings' = << >>
    /\ isDrawing' = FALSE
    /\ currentDrawing' = None
    /\ scheduleRedraw
    /\ signals' = <<"all-drawings-cleared">>
    /\ thrown' = ""
    /\ UNCHANGED <<currentTool, isActive, toolIsActive, navigationLocked,
                   originalNavigationOptions, listening, attached, nextId,
                   histVars, toolbarTool, libVars, subject, result, viewport>>

\* the browser's next animation frame: it runs the callbacks requested and
\* not cancelled, each of which calls redraw() and then clears
\* animationFrameId; `raises` says that redraw() raised (it dereferences
\* this.currentTool), in which case the assignment after it is not reached
AnimationFrame(raises) ==
    /\ frameRequests # {}
    /\ lastOp' = [op |-> "animation-frame", arg |-> coalesced]
    /\ redrawsInFrame' = Cardinality(frameRequests)
    /\ frameRequests' = {}
    /\ animationFrameId' = IF raises THEN animationFrameId ELSE None
    /\ coalesced' = 0
    /\ signals' = IF raises THEN << >> ELSE <<"canvas-redrawn">>
    /\ thrown' = IF raises THEN "currentTool" ELSE ""
    /\ UNCHANGED <<mgrVars, histVars, toolbarTool, libVars, subject, result, viewport,
                   requested, destroyed>>

\* DrawingManager.destroy() of the canvas manager
CanvasDestroy ==
    /\ lastOp' = [op |-> "destroy", arg |-> 0]
    /\ frameRequests' = IF animationFrameId # None
                        THEN cancelAnimationFrame(frameRequests, animationFrameId[1])
                        ELSE frameRequests
    /\ drawings' = << >>
    /\ currentTool' = NoTool
    /\ currentDrawing' = None
    /\ isActive' = FALSE
    /\ destroyed' = TRUE
    /\ signals' = << >>
    /\ thrown' = ""
    /\ UNCHANGED <<toolIsActive, isDrawing, navigationLocked,
                   originalNavigationOptions, listening, attached, nextId,
                   histVars, toolbarTool, libVars, subject, result, viewport,
                   animationFrameId, requested, coalesced, redrawsInFrame>>

\* ------------------------------------------------------------ persistence
\* records handed to importDrawings: a finalized trend line as exportDrawings
\* writes it, the same record without its end anchor, and a record of a kind
\* no tool implements
ImportRecords ==
    LET d == finalizeDrawingData("TrendLine", createDrawing("TrendLine", screenToChart(1), ManagerOptions),
                                 screenToChart(MaxPos))
    IN {[tool |-> "TrendLine", data |-> d],
        [tool |-> "TrendLine", data |-> [d EXCEPT !.endPoint = None]],
        [tool |-> "Circle", data |-> d]}

\* DrawingManager.exportDrawings(): one record per entry, in insertion
\* order, whose data is the entry's drawing object itself (the timestamp is a
\* wall-clock reading and is left out)
exportDrawings ==
    [i \in 1..Len(drawings) |-> [tool |-> drawings[i].tool, data |-> drawings[i].data]]

\* the arguments of importDrawings: an array of records (Some) or a value
\* that is not an array (None)
ImportInputs ==
    {None} \cup {Some(b) : b \in UNION {[1..n -> ImportRecords] : n \in 1..MaxIds}}

\* the entries the forEach of importDrawings stores: every record, under the
\* next ids, with the record's own fields and no primitive
importEntries(batch, first) ==
    [k \in 1..Len(batch) |->
        [id |-> first + k, tool |-> batch[k].tool, data |-> batch[k].data, primitive |-> FALSE]]

\* DrawingManager.importDrawings(drawingsData), while the ids handed out
\* stay within `cap`
importDrawings(input, cap) ==
    /\ lastOp' = [op |-> "importDrawings", arg |-> input]
    /\ UNCHANGED toolVars
    /\ IF input = None THEN Returns
       ELSE /\ nextId + Len(input[1]) <= cap
            /\ drawings' = drawings \o importEntries(input[1], nextId)
            /\ nextId' = nextId + Len(input[1])
            /\ signals' = <<"drawings-imported">>
            /\ thrown' = ""
            /\ UNCHANGED <<currentTool, isActive, toolIsActive, isDrawing,
                           currentDrawing, navigationLocked,
                           originalNavigationOptions, listening, attached,
                           histVars, toolbarTool>>

\* chart.importDrawings(drawingsData) with the batches of ImportInputs
ImportDrawings(input) == importDrawings(input, MaxIds)

\* options.maxDrawings of the constructor's defaults; chart.js does not
\* override it
maxDrawings == 100

\* a finalized trend line as exportDrawings writes it
ExportedRecord ==
    [tool |-> "TrendLine",
     data |-> finalizeDrawingData("TrendLine",
                                  createDrawing("TrendLine", screenToChart(1), ManagerOptions),
                                  screenToChart(MaxPos))]

\* saved sessions handed to importDrawings: one drawing, or as many as
\* options.maxDrawings allows
SavedSessions == {Some([k \in 1..n |-> ExportedRecord]) : n \in {1, maxDrawings}}

\* chart.importDrawings(drawingsData) with a saved session
ImportSession(input) == importDrawings(input, maxDrawings + 1)

\* DrawingManager.destroy()
Destroy ==
    /\ lastOp' = [op |-> "destroy", arg |-> ""]
    /\ UNCHANGED toolVars
    /\ attached' = attached \ clearDetaches
    /\ drawings' = << >>
    /\ isDrawing' = FALSE
    /\ currentDrawing' = None
    /\ listening' = FALSE
    /\ currentTool' = NoTool
    /\ isActive' = FALSE
    /\ originalNavigationOptions' = FALSE
    /\ navigationLocked' = FALSE
    /\ signals' = <<"all-drawings-cleared">>
    /\ thrown' = ""
    /\ Track(FALSE, IF restoreApplies THEN 1 ELSE 0)
    /\ UNCHANGED <<toolIsActive, nextId, toolbarTool>>

\* ---------------------------------------------------------------- EventBus
\* subscriptions made on the bus in one run
MaxSubs == 3

\* the functions handed to on() / once()
Callbacks == {"f", "g"}
\* the values of options.priority
Priorities == {0, 1}
\* an event name is the sequence of its parts: 'x' is <<"x">>, '' is << >>,
\* 'ui:x' is <<"ui", ":", "x">>
PlainNames == {<< >>, <<"x">>}
Namespaces == {"ui", "io"}
\* the receiver of a call: the bus itself (None) or the interface
\* namespace(ns) returned (Some(ns))
Receivers == {None} \cup {Some(ns) : ns \in Namespaces}

\* the template string `${namespace}:${eventName}` of the namespaced interface
prefixed(ns, eventName) == <<ns, ":">> \o eventName

\* the event name a call on `receiver` hands to the bus
busName(receiver, eventName) ==
    IF receiver = None THEN eventName ELSE prefixed(receiver[1], eventName)

\* the truth value JavaScript gives an optional string
truthyName(nameOpt) == nameOpt # None /\ nameOpt[1] # << >>

\* this.events.get(eventName), the empty array when the key is absent
listenersOf(evs, eventName) ==
    IF eventName \in DOMAIN evs THEN evs[eventName] ELSE << >>

\* on() that pushes and does not sort
sortByPriority_Unsorted(listeners) == listeners

RECURSIVE sortByPriority(_)
\* listeners.sort((a, b) => b.priority - a.priority): Array.prototype.sort
\* is stable, so listeners of equal priority keep their order
sortByPriority(listeners) ==
    IF listeners = << >> THEN << >>
    ELSE LET h == Head(listeners)
             rest == sortByPriority(Tail(listeners))
             k == Cardinality({i \in 1..Len(rest) : rest[i].priority > h.priority})
         IN SubSeq(rest, 1, k) \o <<h>> \o SubSeq(rest, k + 1, Len(rest))

\* EventBus.on: the events map after the listener has been pushed and the
\* array sorted
on(evs, eventName, listener) ==
    [x \in DOMAIN evs \cup {eventName} |->
        IF x = eventName
        THEN sortByPriority(Append(listenersOf(evs, eventName), listener))
        ELSE evs[x]]

\* EventBus.off: removes the first listener of the event whose callback is
\* `callback`, and the event's key with its last listener
off(evs, eventName, callback) ==
    IF eventName \notin DOMAIN evs THEN [events |-> evs, removed |-> FALSE]
    ELSE LET listeners == evs[eventName]
             found == {i \in 1..Len(listeners) : listeners[i].callback = callback}
         IN IF found = {} THEN [events |-> evs, removed |-> FALSE]
            ELSE LET index == CHOOSE i \in found : \A j \in found : i <= j
                     spliced == SubSeq(listeners, 1, index - 1)
                                  \o SubSeq(listeners, index + 1, Len(listeners))
                 IN [events |-> IF spliced = << >>
                                THEN [x \in DOMAIN evs \ {eventName} |-> evs[x]]
                                ELSE [evs EXCEPT ![eventName] = spliced],
                     removed |-> TRUE]

\* executeListener without its try / catch: what the callback raises
\* leaves emit
executeListener_NoCatch(listener, eventName, failing, acc) ==
    IF listener.callback \in failing
    THEN [acc EXCEPT !.invoked = Append(@, listener), !.aborted = TRUE]
    ELSE [acc EXCEPT !.invoked = Append(@, listener),
                     !.count = @ + 1,
                     !.events = IF listener.once
                                THEN off(acc.events, eventName, listener.callback).events
                                ELSE @]

\* executeListener of emit: calls the callback; when it returns, counts it
\* and unsubscribes a once listener with this.off(eventName, listener.callback);
\* when it raises (the callbacks in `failing`), logs the error and goes on
executeListener(listener, eventName, failing, acc) ==
    IF listener.callback \in failing
    THEN [acc EXCEPT !.invoked = Append(@, listener)]
    ELSE [acc EXCEPT !.invoked = Append(@, listener),
                     !.count = @ + 1,
                     !.events = IF listener.once
                                THEN off(acc.events, eventName, listener.callback).events
                                ELSE @]

RECURSIVE forEachListener(_, _, _, _)
\* listeners.forEach(executeListener) over the copy emit made
forEachListener(listeners, eventName, failing, acc) ==
    IF listeners = << >> \/ acc.aborted THEN acc
    ELSE forEachListener(Tail(listeners), eventName, failing,
                         executeListener(Head(listeners), eventName, failing, acc))

\* EventBus.clear(eventName = null)
clear(evs, nameOpt) ==
    IF truthyName(nameOpt)
    THEN [x \in DOMAIN evs \ {nameOpt[1]} |-> evs[x]]
    ELSE << >>

\* the argument the namespaced clear hands to this.clear:
\* eventName ? `${namespace}:${eventName}` : null
namespacedClearArg(ns, nameOpt) ==
    IF truthyName(nameOpt) THEN Some(prefixed(ns, nameOpt[1])) ELSE None

\* a call on the bus leaves the drawing engine alone
BusCall ==
    /\ signals' = << >>
    /\ UNCHANGED <<mgrVars, histVars, toolbarTool, subject, result, viewport,
                   frameVars, csvVars>>

\* bus.on(eventName, callback, {priority}) / bus.once(...) on the bus or on
\* a namespaced interface
BusOn(receiver, eventName, callback, once, priority) ==
    /\ subscribed < MaxSubs
    /\ lastOp' = [op |-> "EventBus.on",
                  arg |-> [name |-> busName(receiver, eventName), callback |-> callback]]
    /\ events' = on(events, busName(receiver, eventName),
                    [callback |-> callback, once |-> once, priority |-> priority,
                     n |-> subscribed + 1])
    /\ subscribed' = subscribed + 1
    /\ invoked' = << >>
    /\ returned' = None
    /\ thrown' = ""
    /\ UNCHANGED fired
    /\ BusCall

\* bus.off(eventName, callback)
BusOff(receiver, eventName, callback) ==
    /\ lastOp' = [op |-> "EventBus.off",
                  arg |-> [name |-> busName(receiver, eventName), callback |-> callback]]
    /\ events' = off(events, busName(receiver, eventName), callback).events
    /\ returned' = Some(off(events, busName(receiver, eventName), callback).removed)
    /\ invoked' = << >>
    /\ thrown' = ""
    /\ UNCHANGED <<subscribed, fired>>
    /\ BusCall

\* bus.emit(eventName, data) with the synchronous default; `failing` are the
\* callbacks that raise when called with this data
BusEmit(receiver, eventName, failing) ==
    LET name == busName(receiver, eventName)
        res == forEachListener(listenersOf(events, name), name, failing,
                               [events |-> events, invoked |-> << >>, count |-> 0,
                                aborted |-> FALSE])
    IN /\ lastOp' = [op |-> "EventBus.emit", arg |-> [name |-> name, failing |-> failing]]
       /\ events' = res.events
       /\ invoked' = res.invoked
       /\ returned' = IF res.aborted THEN None ELSE Some(res.count)
       /\ thrown' = IF res.aborted THEN "listener" ELSE ""
       /\ fired' = fired \cup {res.invoked[i].n :
                                 i \in {j \in 1..Len(res.invoked) :
                                           /\ res.invoked[j].once
                                           /\ res.invoked[j].callback \notin failing}}
       /\ UNCHANGED subscribed
       /\ BusCall

\* bus.clear(eventName) / bus.clear() on the bus or on a namespaced interface
BusClear(receiver, nameOpt) ==
    /\ lastOp' = [op |-> "EventBus.clear", arg |-> [receiver |-> receiver, name |-> nameOpt]]
    /\ events' = clear(events, IF receiver = None THEN nameOpt
                               ELSE namespacedClearArg(receiver[1], nameOpt))
    /\ invoked' = << >>
    /\ returned' = None
    /\ thrown' = ""
    /\ UNCHANGED <<subscribed, fired>>
    /\ BusCall

\* ------------------------------------------------------------ DataProcessor
\* lines of a CSV text
MaxLines == 2

\* the text of a column: a decimal number (<<"num", n>>), a date and time
\* (<<"date", m>>, m the minutes since the epoch) or anything else (<<"txt">>)
NumberTexts == {<<"num", 1>>, <<"num", 2>>}
DateTexts == {<<"date", 1>>}
OtherText == <<"txt">>

\* the lines of the input: the columns between the tabs, << >> for a blank
\* line.  Five numeric columns in every order of magnitude, with and without
\* a volume column, a line with a column that is no number, a line with a
\* date that does not parse, a line of four columns and a blank line
CsvLines ==
    {<<d, o, h, l, c>> : d \in DateTexts, o \in NumberTexts, h \in NumberTexts,
                         l \in NumberTexts, c \in NumberTexts}
    \cup {<<d, <<"num", 1>>, <<"num", 2>>, <<"num", 1>>, <<"num", 2>>, <<"num", 2>>>> : d \in DateTexts}
    \cup {<<d, OtherText, <<"num", 2>>, <<"num", 1>>, <<"num", 2>>>> : d \in DateTexts}
    \cup {<<OtherText, <<"num", 1>>, <<"num", 2>>, <<"num", 1>>, <<"num", 2>>>>}
    \cup {<<d, <<"num", 1>>, <<"num", 2>>, <<"num", 1>>>> : d \in DateTexts}
    \cup {<< >>}

\* the texts handed to parseCSV
CsvTexts == UNION {[1..n -> CsvLines] : n \in 1..MaxLines}

\* parseFloat / parseInt of a column: None stands for NaN
parseFloat(column) == IF column[1] = "num" THEN Some(column[2]) ELSE None

\* new Date(datetime).getTime(): milliseconds, NaN for a text that is no date
getTime(column) == IF column[1] = "date" THEN Some(column[2] * 60000) ELSE None

\* DataProcessor.formatDateTimeForTradingView: Math.floor(getTime() / 1000),
\* a value whose typeof is 'number' also when it is NaN
formatDateTimeForTradingView(column) ==
    [typeof |-> "number",
     value |-> IF getTime(column) = None THEN None ELSE Some(getTime(column)[1] \div 1000)]

\* Utils.validateOHLC(item); open, high, low and close are numbers here
validateOHLC(item) ==
    /\ item.time.typeof = "string"
    /\ item.high >= item.low
    /\ item.high >= item.open
    /\ item.high >= item.close
    /\ item.low <= item.open
    /\ item.low <= item.close

\* the body of the loop of parseCSV for one line: the data point pushed
\* (Some) or nothing (None)
parseLine(columns) ==
    IF Len(columns) < 5 THEN None
    ELSE LET open == parseFloat(columns[2])
             high == parseFloat(columns[3])
             low == parseFloat(columns[4])
             close == parseFloat(columns[5])
             volume == IF Len(columns) >= 6 /\ parseFloat(columns[6]) # None
                       THEN parseFloat(columns[6])[1] ELSE 0
         IN IF open = None \/ high = None \/ low = None \/ close = None THEN None
            ELSE IF \/ high[1] < low[1] \/ high[1] < open[1] \/ high[1] < close[1]
                    \/ low[1] > open[1] \/ low[1] > close[1]
            THEN None
            ELSE LET dataPoint == [time |-> formatDateTimeForTradingView(columns[1]),
                                   open |-> open[1], high |-> high[1],
                                   low |-> low[1], close |-> close[1],
                                   volume |-> volume]
                 IN IF validateOHLC(dataPoint) THEN Some(dataPoint) ELSE None

RECURSIVE parseLines(_)
\* the loop of parseCSV over the non-blank lines
parseLines(lines) ==
    IF lines = << >> THEN << >>
    ELSE (IF Head(lines) = << >> THEN << >> ELSE parseLine(Head(lines)))
           \o parseLines(Tail(lines))

\* DataProcessor.parseCSV(csvText): the array it returns, or the error it
\* raises when the array is empty
parseCSV(text) ==
    LET data == parseLines(text)
    IN IF data = << >> THEN [threw |-> TRUE, data |-> << >>]
       ELSE [threw |-> FALSE, data |-> data]

\* DataProcessor.parseCSV called on a text
ParseCSV(text) ==
    /\ lastOp' = [op |-> "parseCSV", arg |-> ""]
    /\ csvText' = text
    /\ parsed' = Some(parseCSV(text))
    /\ signals' = << >>
    /\ thrown' = IF parseCSV(text).threw THEN "parseCSV" ELSE ""
    /\ UNCHANGED <<mgrVars, histVars, toolbarTool, subject, result, viewport,
                   frameVars, busVars>>

\* ----------------------------------------------------------- specification
\* Spec: the DrawingManager as the repository wires it.  Tools are armed by
\* name through the bus (initializeTools registers the trend line only),
\* disarmed by 'drawing-tool-deselected' or chart.setActiveDrawingTool(null),
\* and the pointer listeners, the collection methods, chart.enableDrawings
\* and destroy() run in between.
Next ==
    \/ SetActiveTool(NoTool)
    \/ \E e \in BOOLEAN : EnableDrawings(e)
    \/ \E n \in ToolNames : OnDrawingToolSelected(n)
    \/ OnDrawingToolDeselected
    \/ \E p \in Pos : HandleMouseDown(p)
    \/ \E p \in Pos : HandleMouseMove(p)
    \/ \E p \in Pos, f \in HostFaults : HandleMouseUp(p, f)
    \/ HandleMouseLeave
    \/ ClearAllDrawings
    \/ \E id \in 1..MaxIds : RemoveDrawing(id)
    \/ Destroy

Spec == Init /\ [][Next]_vars

\* SpecApi: the same manager driven through its public interface, where
\* chart.setActiveDrawingTool(tool) and a 'drawing-tool-selected' event that
\* carries an object hand it a tool of any kind
NextApi ==
    \/ \E t \in Tools \cup {NoTool} : SetActiveTool(t)
    \/ \E n \in ToolNames : OnDrawingToolSelected(n)
    \/ OnDrawingToolDeselected
    \/ \E p \in Pos : HandleMouseDown(p)
    \/ \E p \in Pos : HandleMouseMove(p)
    \/ \E p \in Pos, f \in HostFaults : HandleMouseUp(p, f)
    \/ HandleMouseLeave
    \/ ClearAllDrawings
    \/ \E id \in 1..MaxIds : RemoveDrawing(id)
    \/ Destroy

SpecApi == Init /\ [][NextApi]_vars

\* SpecPersist: Spec with drawings also loaded from storage through
\* chart.importDrawings and with the chart announcing changes of its
\* visible range
NextPersist ==
    \/ \E i \in ImportInputs : ImportDrawings(i)
    \/ \E e \in BOOLEAN : EnableDrawings(e)
    \/ OnVisibleRangeChanged
    \/ SetActiveTool(NoTool)
    \/ \E n \in ToolNames : OnDrawingToolSelected(n)
    \/ OnDrawingToolDeselected
    \/ \E p \in Pos : HandleMouseDown(p)
    \/ \E p \in Pos : HandleMouseMove(p)
    \/ \E p \in Pos, f \in HostFaults : HandleMouseUp(p, f)
    \/ HandleMouseLeave
    \/ ClearAllDrawings
    \/ \E id \in 1..MaxIds : RemoveDrawing(id)
    \/ Destroy

SpecPersist == Init /\ [][NextPersist]_vars

\* SpecSessions: saved sessions loaded one after the other into the same
\* manager, with clear-all in between
NextSessions ==
    \/ \E i \in SavedSessions : ImportSession(i)
    \/ ClearAllDrawings

SpecSessions == Init /\ [][NextSessions]_vars

\* SpecBus: subscriptions to one event of the bus, made, removed and
\* notified in any order
NextBus ==
    \/ \E c \in Callbacks, o \in BOOLEAN, p \in Priorities : BusOn(None, <<"x">>, c, o, p)
    \/ \E c \in Callbacks : BusOff(None, <<"x">>, c)
    \/ \E failing \in SUBSET Callbacks : BusEmit(None, <<"x">>, failing)

SpecBus == Init /\ [][NextBus]_vars

\* SpecNamespace: the bus shared by two namespaced interfaces and by code
\* that uses it directly
NextNamespace ==
    \/ \E r \in Receivers, e \in PlainNames : BusOn(r, e, "f", FALSE, 0)
    \/ \E r \in Receivers, e \in PlainNames : BusEmit(r, e, {})
    \/ \E r \in Receivers, e \in {None} \cup {Some(x) : x \in PlainNames} : BusClear(r, e)

SpecNamespace == Init /\ [][NextNamespace]_vars

\* SpecCsv: DataProcessor.parseCSV applied to one text after the other
NextCsv == \E text \in CsvTexts : ParseCSV(text)

SpecCsv == Init /\ [][NextCsv]_vars

\* SpecTools: the methods of the three tools, each called on drawings of
\* its own kind
NextTools ==
    \/ \E t \in Tools, p \in Pos, o \in ToolOptions : ToolCreateDrawing(t, p, o)
    \/ ToolUpdateUnresolved
    \/ \E p \in Pos : ToolUpdateDrawingData(p)
    \/ \E p \in Pos : ToolFinalizeDrawingData(p)
    \/ ToolRoundTrip
    \/ \E x \in QueryCoords, y \in QueryCoords, tol \in 0..MaxTol : ToolIsPointInside(<<x, y>>, tol)

SpecTools == Init /\ [][NextTools]_vars

\* SpecRender: drawings made by gestures or loaded from storage, painted by
\* both render paths while the host's scales change
NextRender ==
    \/ \E t \in Tools, a \in RenderPoints, b \in RenderPoints : RenderGesture(t, a, b)
    \/ RenderLoad
    \/ \E v \in Viewports : SetViewport(v)
    \/ Paint

SpecRender == Init /\ [][NextRender]_vars

\* SpecFrames: the repaint scheduling of the canvas manager.  The browser
\* keeps producing animation frames, so a frame with callbacks to run is
\* eventually run.
NextFrames ==
    \/ CanvasVisibleRangeChanged
    \/ CanvasClearAllDrawings
    \/ \E raises \in BOOLEAN : AnimationFrame(raises)
    \/ CanvasDestroy

SpecFrames == Init /\ [][NextFrames]_vars /\ WF_vars(\E raises \in BOOLEAN : AnimationFrame(raises))

\* SpecToolbar: the Toolbar widget in front of the manager; tool selection
\* comes from the toolbar buttons as well as from the bus, and gestures are
\* started, cancelled and torn down in between
NextToolbar ==
    \/ \E i \in ToolIds : ToolbarSelectTool(i)
    \/ \E a \in BOOLEAN : ToolbarClearAllDrawings(a)
    \/ SetActiveTool(NoTool)
    \/ \E n \in ToolNames : OnDrawingToolSelected(n)
    \/ OnDrawingToolDeselected
    \/ \E p \in Pos : HandleMouseDown(p)
    \/ \E p \in Pos, f \in HostFaults : HandleMouseUp(p, f)
    \/ HandleMouseLeave
    \/ Destroy

SpecToolbar == Init /\ [][NextToolbar]_vars

\* ------------------------------------------------------------------ claims
\* a step is a select-tool request for a tool object or a tool name
IsSelectStep ==
    \/ lastOp'.op = "drawing-tool-selected"
    \/ lastOp'.op = "setActiveTool" /\ lastOp'.arg # NoTool

\* a step is a deselect request
IsDeselectStep ==
    \/ lastOp'.op = "drawing-tool-deselected"
    \/ lastOp'.op = "setActiveTool" /\ lastOp'.arg = NoTool

\* the tool a select request names
RequestedTool(op) ==
    IF op.op = "setActiveTool" THEN op.arg ELSE getToolInstance(op.arg)

Emitted(e) == \E i \in 1..Len(signals) : signals[i] = e
EmittedNext(e) == \E i \in 1..Len(signals') : signals'[i] = e

\* C1: whenever no gesture is in progress the navigation lock is released,
\* whichever exit path ended the gesture.
C1_LockNeverLeftAcquired == ~isDrawing => ~navigationLocked

\* the restore applyOptions calls a step makes (restoreNavigation is the only
\* code that clears the flag, and it calls the host when the defaults are cached)
StepReleases ==
    IF navigationLocked /\ ~navigationLocked' /\ originalNavigationOptions THEN 1 ELSE 0

\* C2: per gesture the lock is acquired at most once (only by the gesture's
\* pointer-down) and released at most once, and by the step that ends the
\* gesture it has been released exactly once.
C2_LockOnceReleaseOnce ==
    [][/\ (~navigationLocked /\ navigationLocked') => lastOp'.op = "handleMouseDown"
       /\ isDrawing => releases + StepReleases <= 1
       /\ (isDrawing /\ ~isDrawing') => releases + StepReleases = 1]_vars

\* C3: if the host call that attaches the primitive or repaints raises during
\* pointer-up, the manager still ends unlocked with no gesture in progress.
C3_RestoredWhenHostThrows ==
    (lastOp.op = "handleMouseUp" /\ thrown \in {"attachPrimitive", "applyOptions"})
        => (~navigationLocked /\ ~isDrawing)

\* C4: while a gesture is in progress host navigation is suspended.
C4_LockedWhileDrawing == isDrawing => navigationLocked

\* C5: a deselect request leaves no gesture in progress and no in-progress
\* drawing, so a drawing is never in progress while no tool is active.
C5_DeselectCancelsGesture ==
    /\ (lastOp.op = "drawing-tool-deselected" \/ (lastOp.op = "setActiveTool" /\ lastOp.arg = NoTool))
          => (~isDrawing /\ currentDrawing = None)
    /\ (isDrawing \/ currentDrawing # None) => currentTool # NoTool

\* C6: a select-tool request that arrives mid-gesture changes neither the
\* active tool nor the in-progress drawing nor the navigation lock.
C6_SelectIgnoredMidGesture ==
    [][(isDrawing /\ IsSelectStep)
          => UNCHANGED <<currentTool, currentDrawing, navigationLocked>>]_vars

C8_UnknownKindRejected ==
    [][(lastOp'.op = "drawing-tool-selected" /\ getToolInstance(lastOp'.arg) = NoTool)
          => /\ UNCHANGED <<currentTool, isActive, toolIsActive>>
             /\ ~EmittedNext("drawing-tool-activated")
             /\ ~EmittedNext("drawing-tool-deactivated")]_vars

\* C9: pointer-down while no tool is armed creates no drawing, starts no
\* gesture, does not take the lock, leaves the collection alone and emits no
\* 'drawing-started'.
C9_PointerDownIdleNoOp ==
    [][(lastOp'.op = "handleMouseDown" /\ currentTool = NoTool)
          => /\ UNCHANGED <<currentDrawing, isDrawing, navigationLocked, drawings, attached>>
             /\ ~EmittedNext("drawing-started")
             /\ thrown' = ""]_vars

\* C9 witness: a pointer-down has just been handled in Idle.
C9_Witness ==
    /\ lastOp.op = "handleMouseDown"
    /\ currentTool = NoTool
    /\ ~isActive
    /\ ~isDrawing
    /\ currentDrawing = None

\* C10: pointer-up with no in-progress drawing changes neither the
\* collection nor the attached primitives nor the active tool nor the lock,
\* emits no 'drawing-completed' and raises nothing.
C10_PointerUpNoDrawingNoOp ==
    [][(lastOp'.op = "handleMouseUp" /\ (~isDrawing \/ currentDrawing = None))
          => /\ UNCHANGED <<drawings, attached, nextId, currentTool, isActive,
                            navigationLocked, isDrawing, currentDrawing>>
             /\ ~EmittedNext("drawing-completed")
             /\ thrown' = ""]_vars

\* C10 witness: a pointer-up has just been handled while a tool was armed
\* and nothing was being drawn.
C10_Witness ==
    /\ lastOp.op = "handleMouseUp"
    /\ currentTool # NoTool
    /\ ~isDrawing
    /\ currentDrawing = None
    /\ signals = << >>

\* C11: every pointer-up that ends a gesture commits the drawing, whatever
\* the tool: the collection grows by one entry that holds the finalized
\* drawing under a fresh id, its primitive is attached, the in-progress
\* drawing is cleared and the same tool stays armed.
C11_PointerUpCommits ==
    [][(lastOp'.op = "handleMouseUp" /\ isDrawing /\ ~isDrawing')
          => /\ Len(drawings') = Len(drawings) + 1
             /\ nextId' = nextId + 1
             /\ drawings'[Len(drawings')].id = nextId'
             /\ \E p \in Pos : drawings'[Len(drawings')].data =
                    finalizeDrawingData(currentTool, currentDrawing[1], screenToChart(p))
             /\ nextId' \in attached'
             /\ currentDrawing' = None
             /\ currentTool' = currentTool
             /\ isActive']_vars

\* C12: pointer-leave during a gesture discards the in-progress drawing
\* without inserting it, releases the navigation lock, emits
\* 'drawing-cancelled' and leaves the same tool armed.
C12_PointerLeaveCancels ==
    [][(lastOp'.op = "handleMouseLeave" /\ isDrawing /\ currentDrawing # None)
          => /\ ~isDrawing'
             /\ currentDrawing' = None
             /\ UNCHANGED <<drawings, attached, currentTool, isActive>>
             /\ ~navigationLocked'
             /\ EmittedNext("drawing-cancelled")
             /\ thrown' = ""]_vars

WellFormed(rec) ==
    /\ rec.tool \in Tools
    /\ rec.data.startPoint # None
    /\ rec.data.endPoint # None

\* C15: importDrawings skips the malformed records of a batch one by one:
\* the collection grows by exactly the number of well-formed records, and
\* nothing is raised.
C15_ImportSkipsMalformed ==
    [][(lastOp'.op = "importDrawings" /\ lastOp'.arg # None)
          => /\ Len(drawings') - Len(drawings) =
                   Cardinality({k \in 1..Len(lastOp'.arg[1]) : WellFormed(lastOp'.arg[1][k])})
             /\ thrown' = ""]_vars

\* an anchor of an exported record carries domain coordinates only
NoScreen(anchor) == anchor # None => anchor[1].screen = None

\* C16: no record returned by exportDrawings carries screen coordinates on
\* an anchor or derived fields.
C16_ExportIsPortable ==
    \A i \in 1..Len(exportDrawings) :
        /\ NoScreen(exportDrawings[i].data.startPoint)
        /\ NoScreen(exportDrawings[i].data.endPoint)
        /\ exportDrawings[i].data.derivedBy = NoTool

\* the domain part of an anchor
Domain(anchor) ==
    IF anchor = None THEN None
    ELSE Some([time |-> anchor[1].time, price |-> anchor[1].price])

\* the anchors of a drawing
AnchorsOf(d) == <<Domain(d.startPoint), Domain(d.endPoint), d.price>>

\* the derived fields of a drawing
DerivedOf(d) ==
    <<d.levels, d.lineLengthSq, d.direction, d.priceRange, d.priceDifference,
      d.timeDifference>>

\* the coordinates of a drawing's last anchor, for finalizing it again
LastCoords(d) ==
    IF d.type = "HorizontalLine"
    THEN [time |-> 0, price |-> d.price[1], screenX |-> 0, screenY |-> 0]
    ELSE [time |-> d.endPoint[1].time, price |-> d.endPoint[1].price,
          screenX |-> d.endPoint[1].screen[1][1], screenY |-> d.endPoint[1].screen[1][2]]

\* a drawing that went through its tool's finalizeDrawingData
IsFinalized(d) == d.type = "HorizontalLine" \/ d.derivedBy = d.type

\* C17: for a finalized drawing d of any tool, fromJSON(toJSON(d)) has d's
\* anchors, and its derived fields are those that finalizing its anchors
\* independently gives.
C17_RoundTripRecomputesDerived ==
    (lastOp.op = "fromJSON" /\ IsFinalized(subject[1]))
        => /\ AnchorsOf(result[1]) = AnchorsOf(subject[1])
           /\ DerivedOf(result[1]) =
                 DerivedOf(finalizeDrawingData(subject[1].type, result[1], LastCoords(result[1])))

\* C18: applying finalizeDrawingData a second time with the same
\* coordinates leaves the drawing (anchors and derived fields) as the first
\* application left it, for every tool.
C18_FinalizeIdempotent ==
    lastOp.op = "finalizeDrawingData"
        => finalizeDrawingData(subject[1].type, subject[1], screenToChart(lastOp.arg)) = subject[1]

\* C18 witness: a Fibonacci retracement whose anchors differ has just been
\* finalized.
C18_Witness ==
    /\ lastOp.op = "finalizeDrawingData"
    /\ subject # None
    /\ subject[1].type = "FibRetracement"
    /\ subject[1].priceDifference \notin {None, Some(0)}

\* the level table `table` is the one the anchors sp, ep call for
LevelsMatch(table, sp, ep) ==
    /\ Len(table) = Len(FibLevels)
    /\ \A k \in 1..Len(table) :
          /\ table[k].level = FibLevels[k]
          /\ table[k].price1000 = 1000 * sp.price + (ep.price - sp.price) * table[k].level
          /\ table[k].level = 0 => table[k].price1000 = 1000 * sp.price
          /\ table[k].level = 1000 => table[k].price1000 = 1000 * ep.price

\* a Fibonacci drawing carries the table of its own anchors
FibTableOk(dopt) ==
    (dopt # None /\ dopt[1].type = "FibRetracement")
        => /\ dopt[1].levels # None
           /\ LevelsMatch(dopt[1].levels[1], dopt[1].startPoint[1], dopt[1].endPoint[1])

\* C19: after createDrawing and after every updateDrawingData,
\* finalizeDrawingData (and fromJSON) of the Fibonacci tool the level table
\* has one row per configured ratio r with price start + (end - start) * r;
\* start 100 / end 200 gives 150 at ratio 0.5, 100 at 0 and 200 at 1.
C19_FibLevelsMatchAnchors ==
    /\ FibTableOk(subject)
    /\ lastOp.op = "fromJSON" => FibTableOk(result)
    /\ LET t == calculateFibLevels(Some([price |-> 100000]), Some([price |-> 200000]))
       IN /\ t[1].price1000 = 1000 * 100000
          /\ t[4].level = 500 /\ t[4].price1000 = 1000 * 150000
          /\ t[7].price1000 = 1000 * 200000

\* C19 witness: the end anchor of a Fibonacci retracement has just been
\* moved away from its start anchor.
C19_Witness ==
    /\ lastOp.op = "updateDrawingData"
    /\ subject # None
    /\ subject[1].type = "FibRetracement"
    /\ subject[1].endPoint[1].price # subject[1].startPoint[1].price

\* the point (px, py) lies within tol of the segment (x1, y1)-(x2, y2):
\* beyond an end the distance is the one to that end, otherwise it is the
\* perpendicular distance |cross| / length
WithinSegment(px, py, x1, y1, x2, y2, tol) ==
    LET lenSq == (x2 - x1) * (x2 - x1) + (y2 - y1) * (y2 - y1)
        dot == (px - x1) * (x2 - x1) + (py - y1) * (y2 - y1)
        cross == (px - x1) * (y2 - y1) - (py - y1) * (x2 - x1)
    IN IF dot <= 0 THEN (px - x1) * (px - x1) + (py - y1) * (py - y1) <= tol * tol
       ELSE IF dot >= lenSq THEN (px - x2) * (px - x2) + (py - y2) * (py - y2) <= tol * tol
       ELSE cross * cross <= tol * tol * lenSq

\* C20: the trend line hit test answers true exactly when the query point
\* lies within `tolerance` pixels of the segment between the anchors'
\* screen positions.
C20_HitTestIsSegmentDistance ==
    lastOp.op = "isPointInside"
        => (result[1] <=>
              WithinSegment(lastOp.arg[1][1], lastOp.arg[1][2],
                            subject[1].startPoint[1].screen[1][1],
                            subject[1].startPoint[1].screen[1][2],
                            subject[1].endPoint[1].screen[1][1],
                            subject[1].endPoint[1].screen[1][2],
                            lastOp.arg[2]))

\* C24: a tool's isActive flag is set exactly when the tool is the manager's
\* current tool, and the manager is active exactly when it has a current tool.
C24_OneActiveToolFlagsAgree ==
    /\ \A t \in Tools : toolIsActive[t] <=> currentTool = t
    /\ isActive <=> currentTool # NoTool

\* the handlers a pointer, bus, collection or persistence event is delivered to
EngineHandlers ==
    {"handleMouseDown", "handleMouseMove", "handleMouseUp", "handleMouseLeave",
     "drawing-tool-selected", "drawing-tool-deselected", "clearAllDrawings",
     "removeDrawing", "importDrawings", "chart-visible-range-changed"}

\* C26: whatever events are delivered, the handler that ran last returned
\* normally, unless it was the host that raised inside it.
C26_NoHandlerThrows ==
    lastOp.op \in EngineHandlers => thrown \in {"", "attachPrimitive", "applyOptions"}

\* C27: every entry of the collection has its primitive attached to the series.
C27_StoredMeansRendered ==
    \A i \in 1..Len(drawings) : drawings[i].id \in attached

\* C29: a 'drawing-started' is announced only when the previous one has had
\* its end announcement, and 'drawing-completed' / 'drawing-cancelled' are
\* announced only for a gesture whose start is still open.
C29_StartFinishPaired ==
    [][/\ EmittedNext("drawing-started") => ~openStart
       /\ (EmittedNext("drawing-completed") \/ EmittedNext("drawing-cancelled")) => openStart]_vars

\* C30: HorizontalLineTool.updateDrawingData with a resolved price p leaves
\* drawing.price at p rounded to 2 decimals when snapToPrice is on and at p
\* itself when it is off; with an unresolved price it leaves the price alone.
C30_HorizontalFollowsPointer ==
    [][(/\ lastOp'.op = "updateDrawingData"
        /\ subject # None
        /\ subject[1].type = "HorizontalLine")
          => subject'[1].price =
                IF lastOp'.arg = 0 THEN subject[1].price
                ELSE IF subject[1].snapToPrice
                THEN Some(SnapPrice(screenToPrice(lastOp'.arg)))
                ELSE Some(screenToPrice(lastOp'.arg))]_vars

\* C21: a trend line whose start anchor's price is 0 gets no label, from
\* the primitive's drawLabel and from the canvas tool's drawLabel alike.
C21_ZeroStartPriceNoLabel ==
    (/\ lastOp.op = "paint"
     /\ subject[1].type = "TrendLine"
     /\ subject[1].startPoint[1].price = 0)
        => /\ result[1].primitive.label = None
           /\ result[1].canvas.label = None

\* the mapper leaves a coordinate the drawing needs unresolved
Unresolved(d, v) ==
    IF d.type = "HorizontalLine" THEN ~v.priceOk ELSE ~v.timeOk \/ ~v.priceOk

\* C22: when the mapper leaves a coordinate of the drawing unresolved,
\* TrendLinePrimitive.drawTrendLine, HorizontalLineTool.draw and
\* FibRetracementTool.draw draw nothing of it.
C22_UnresolvedMeansNotDrawn ==
    (lastOp.op = "paint" /\ Unresolved(subject[1], viewport))
        => /\ result[1].primitive = NoFrame
           /\ subject[1].type # "TrendLine" => result[1].canvas = NoFrame

\* C23: for a trend line whose anchors resolve, the overlay canvas path
\* and the host-attached primitive draw the segment between the same screen
\* endpoints, whatever happened to the host's scales since the commit.
C23_RenderPathsAgree ==
    (/\ lastOp.op = "paint"
     /\ subject[1].type = "TrendLine"
     /\ ~Unresolved(subject[1], viewport))
        => result[1].canvas.line = result[1].primitive.line

\* C28: the derived fields of a drawing left by a gesture are those of the
\* gesture between the same domain anchors made with the host's scales at
\* home, whatever the scales were when it was made.
C28_DerivedFromAnchorsOnly ==
    (lastOp.op = "gesture" /\ subject[1].type # "HorizontalLine")
        => DerivedOf(subject[1]) =
              DerivedOf(gestureDrawing(HomeViewport, subject[1].type,
                                       Domain(subject[1].startPoint)[1],
                                       Domain(subject[1].endPoint)[1]))

\* C25: at most one animation-frame request is pending at any time, a frame
\* that has a request to serve makes exactly one redraw however many
\* scheduleRedraw calls preceded it, and calls that are waiting for their
\* redraw eventually get it unless destroy() takes the request away.
C25_RedrawCoalescedPerFrame ==
    /\ [](Cardinality(frameRequests) <= 1 /\ redrawsInFrame <= 1)
    /\ [][lastOp'.op = "animation-frame" => redrawsInFrame' = 1]_vars
    /\ (coalesced > 0 /\ frameRequests # {}) ~> (coalesced = 0 \/ frameRequests = {})
    /\ [][(coalesced > 0 /\ frameRequests # {} /\ frameRequests' = {})
             => lastOp'.op \in {"animation-frame", "destroy"}]_vars

\* C25 witness: one frame has just made the single redraw that three
\* scheduleRedraw calls were waiting for.
C25_Witness ==
    /\ lastOp.op = "animation-frame"
    /\ lastOp.arg = 3
    /\ redrawsInFrame = 1
    /\ frameRequests = {}

\* C31: in every reachable state of the primitive-based manager isDrawing is
\* true exactly when currentDrawing is non-null.
C31_GestureFieldsAgree == isDrawing <=> currentDrawing # None

\* a pointer-up whose host call raised after the entry was stored: the handler
\* stopped before it reset the two fields
C31_Witness ==
    /\ lastOp.op = "handleMouseUp"
    /\ thrown = "applyOptions"
    /\ isDrawing
    /\ currentDrawing # None
    /\ Len(drawings) = 1

\* C32: every primitive attached to the series is the primitive of exactly
\* one entry of the collection.
C32_NoRenderHookLeak ==
    \A id \in attached :
        /\ \E i \in 1..Len(drawings) : drawings[i].id = id /\ drawings[i].primitive
        /\ \A i, j \in 1..Len(drawings) :
              drawings[i].id = id /\ drawings[j].id = id => i = j

\* a committed trend line whose primitive is attached
C32_Witness ==
    /\ lastOp.op = "handleMouseUp"
    /\ thrown = ""
    /\ attached = {nextId}
    /\ Len(drawings) = 1
    /\ drawings[1].id = nextId

\* C33: the collection never holds more than options.maxDrawings drawings.
C33_WithinMaxDrawings == Len(drawings) <= maxDrawings

\* destroy() has run: it is the only code that nulls the cached navigation
\* defaults the constructor stores
IsDestroyed == ~originalNavigationOptions

\* C34: once destroy() has run, no bus notification or pointer event changes
\* the manager: currentTool stays null, isActive stays false, the pointer
\* listeners stay removed and the collection stays empty.
C34_DestroyedStaysInert ==
    [][IsDestroyed => /\ currentTool' = NoTool
                      /\ isActive' = FALSE
                      /\ listening' = FALSE
                      /\ drawings' = << >>]_vars

\* C35: after Toolbar.clearAllDrawings with the confirmation accepted the
\* collection is empty, no primitive is attached and 'toolbar:cleared' has
\* been emitted.
C35_ClearAllEmptiesCollection ==
    [][(lastOp'.op = "Toolbar.clearAllDrawings" /\ lastOp'.arg = "accepted")
         => /\ drawings' = << >>
            /\ attached' = {}
            /\ EmittedNext("toolbar:cleared")]_vars

\* the listeners of a sequence, as a set
ListenerSet(listeners) == {listeners[i] : i \in 1..Len(listeners)}

\* descending priority, and subscription order within a priority
InCallOrder(listeners) ==
    \A i, j \in 1..Len(listeners) :
        i < j => \/ listeners[i].priority > listeners[j].priority
                 \/ /\ listeners[i].priority = listeners[j].priority
                    /\ listeners[i].n < listeners[j].n

\* C36: emit calls every listener of the event, in descending priority order
\* and, within a priority, in the order the listeners subscribed.
C36_EmitInPriorityOrder ==
    [][lastOp'.op = "EventBus.emit"
         => /\ InCallOrder(invoked')
            /\ Len(invoked') = Len(listenersOf(events, lastOp'.arg.name))
            /\ ListenerSet(invoked') = ListenerSet(listenersOf(events, lastOp'.arg.name))]_vars

\* an emit to three listeners where the last subscriber has the higher
\* priority and the two others tie
C36_Witness ==
    /\ lastOp.op = "EventBus.emit"
    /\ Len(invoked) = 3
    /\ invoked[1].n = 3
    /\ invoked[1].priority > invoked[2].priority
    /\ invoked[2].priority = invoked[3].priority
    /\ invoked[2].n < invoked[3].n

\* the once() subscriptions among the listeners an emit called whose
\* callback returned normally
OnceAmong(listeners, failing) ==
    {l \in ListenerSet(listeners) : l.once /\ l.callback \notin failing}

\* C37: a once() listener runs at most once over all emits, and an emit
\* removes from the event exactly the once() listeners it ran.
C37_OnceFiresOnce ==
    [][lastOp'.op = "EventBus.emit"
         => LET ran == OnceAmong(invoked', lastOp'.arg.failing)
            IN /\ \A l \in ran : l.n \notin fired
               /\ ListenerSet(listenersOf(events', lastOp'.arg.name))
                    = ListenerSet(listenersOf(events, lastOp'.arg.name)) \ ran]_vars

\* C38: a synchronous emit in which listeners raise still calls every
\* listener registered when it started, does not raise itself, and returns
\* the number of listeners that returned normally.
C38_ThrowingListenerIsolated ==
    [][lastOp'.op = "EventBus.emit"
         => LET before == listenersOf(events, lastOp'.arg.name)
            IN /\ thrown' = ""
               /\ Len(invoked') = Len(before)
               /\ ListenerSet(invoked') = ListenerSet(before)
               /\ returned' = Some(Cardinality({i \in 1..Len(before) :
                                     before[i].callback \notin lastOp'.arg.failing}))]_vars

\* an emit whose first listener raised and whose second returned
C38_Witness ==
    /\ lastOp.op = "EventBus.emit"
    /\ Len(invoked) = 2
    /\ invoked[1].callback \in lastOp.arg.failing
    /\ invoked[2].callback \notin lastOp.arg.failing
    /\ returned = Some(1)
    /\ thrown = ""

\* C39: on a namespaced interface clear(eventName) removes the listeners of
\* `ns:eventName` and no others, and clear() removes every listener of the
\* underlying bus.
C39_NamespacedClear ==
    [][(lastOp'.op = "EventBus.clear" /\ lastOp'.arg.receiver # None)
         => IF lastOp'.arg.name # None
            THEN LET name == prefixed(lastOp'.arg.receiver[1], lastOp'.arg.name[1])
                 IN events' = [x \in DOMAIN events \ {name} |-> events[x]]
            ELSE events' = << >>]_vars

\* a line the README's data format accepts: at least 5 columns, the four
\* prices numeric, high the largest and low the smallest of them
WellFormedLine(columns) ==
    /\ Len(columns) >= 5
    /\ \A k \in 2..5 : columns[k][1] = "num"
    /\ \A k \in {2, 4, 5} : columns[3][2] >= columns[k][2]
    /\ \A k \in {2, 5} : columns[4][2] <= columns[k][2]

\* the prices of a line or of a data point
Prices(open, high, low, close) == <<open, high, low, close>>

\* C40: parseCSV returns one data point for every well-formed line of the
\* text, in input order, and none for the other lines.
C40_KeepsWellFormedLines ==
    parsed # None =>
        LET kept == SelectSeq(csvText, WellFormedLine)
            data == parsed[1].data
        IN /\ Len(data) = Len(kept)
           /\ \A i \in 1..Len(kept) :
                 Prices(data[i].open, data[i].high, data[i].low, data[i].close)
                   = Prices(kept[i][2][2], kept[i][3][2], kept[i][4][2], kept[i][5][2])

====
